---- MODULE Spec2Model ----
(***************************************************************************)
(* Model of gcp-anomaly-detector (src/main.go): the SimpleAnomalyDetector  *)
(* engine (GetBaseline, UpdateCurrentStats, DetectAnomalies) and the       *)
(* driver (main, processMetrics, fetchHistoricalMetrics,                   *)
(* fetchRecentMetrics).                                                    *)
(*                                                                         *)
(* Numbers.  Sample values are integers.  A float64 that the code computes *)
(* with +, -, *, / is modelled by the exact rational it approximates, kept *)
(* in lowest terms ([num, den], den > 0), so that equality of records is   *)
(* equality of numbers.  math.Sqrt(x) is modelled by the record            *)
(* [sqrtOf |-> x]; a z-score, the quotient of a rational by a square root, *)
(* by its sign and its square.  The IEEE-754 results of a division by      *)
(* 0.0 (NaN, +Inf, -Inf) are modelled as such, with the comparison rules   *)
(* of Go's `>`.  Rounding error of float64 is outside the model.           *)
(*                                                                         *)
(* d.zScores (a per-call diagnostic map that nothing reads but the log     *)
(* loop of DetectAnomalies) and all log output are not modelled.           *)
(***************************************************************************)
EXTENDS Integers, Sequences, FiniteSets, TLC

\* Bounds of the model.
MaxPoints == 2      \* points per time series
MaxSeries == 2      \* time series per batch handed to the engine

\* Metric types (metric.Metric.Type) and the sample values (GetDoubleValue())
\* each of them takes: m1 varies, m2 is a gauge that never moves.
MetricTypes == {"m1", "m2"}
ValuesOf(type) == IF type = "m1" THEN {90, 110, 130} ELSE {5}

(***************************************************************************)
(* Exact rational arithmetic standing for float64 arithmetic.              *)
(***************************************************************************)
IAbs(x) == IF x < 0 THEN -x ELSE x

RECURSIVE GCD(_, _)
GCD(a, b) == IF b = 0 THEN a ELSE GCD(b, a % b)

\* n/d in lowest terms, d # 0
Rat(n, d) ==
    LET g == GCD(IAbs(n), IAbs(d))
        s == IF d < 0 THEN -1 ELSE 1
    IN  [num |-> (s * n) \div g, den |-> (s * d) \div g]

FromInt(n) == [num |-> n, den |-> 1]
Zero == FromInt(0)

RAdd(a, b) == Rat(a.num * b.den + b.num * a.den, a.den * b.den)
RSub(a, b) == Rat(a.num * b.den - b.num * a.den, a.den * b.den)
RMul(a, b) == Rat(a.num * b.num, a.den * b.den)
\* a / b for b # 0
RDiv(a, b) == Rat(a.num * b.den, a.den * b.num)
RLess(a, b) == a.num * b.den < b.num * a.den
Sign(a) == IF a.num > 0 THEN 1 ELSE IF a.num < 0 THEN -1 ELSE 0

\* math.Sqrt of a non-negative rational
Sqrt(x) == [sqrtOf |-> x]

\* IEEE-754 special values
NaN == [kind |-> "NaN"]
PosInf == [kind |-> "+Inf"]
NegInf == [kind |-> "-Inf"]
\* a finite float64 known by its sign and square (a quotient by a square root)
Finite(sign, sq) == [kind |-> "finite", sign |-> sign, sq |-> sq]
\* a finite float64 known exactly (a configured threshold)
Exact(q) == Finite(Sign(q), RMul(q, q))

\* a division that was guarded against a zero divisor: 0 instead of a
\* non-finite quotient
DivBySqrtGuarded(x, s) ==
    IF s.sqrtOf.num = 0 THEN Finite(0, Zero)
    ELSE Finite(Sign(x), RDiv(RMul(x, x), s.sqrtOf))

\* x / s for a rational x and s = Sqrt(..): float64 division, which never
\* faults: x/0 is +Inf or -Inf and 0/0 is NaN.
DivBySqrt(x, s) ==
    IF s.sqrtOf.num = 0
    THEN IF x.num = 0 THEN NaN ELSE IF x.num > 0 THEN PosInf ELSE NegInf
    ELSE Finite(Sign(x), RDiv(RMul(x, x), s.sqrtOf))

\* math.Abs
MathAbs(z) ==
    CASE z.kind = "NaN" -> NaN
      [] z.kind = "+Inf" -> PosInf
      [] z.kind = "-Inf" -> PosInf
      [] OTHER -> Finite(IAbs(z.sign), z.sq)

\* Go's a > b on float64: false whenever an operand is NaN
Greater(a, b) ==
    CASE a.kind = "NaN" \/ b.kind = "NaN" -> FALSE
      [] a.kind = "+Inf" -> b.kind # "+Inf"
      [] a.kind = "-Inf" -> FALSE
      [] b.kind = "+Inf" -> FALSE
      [] b.kind = "-Inf" -> TRUE
      [] OTHER ->
           IF a.sign >= 0 /\ b.sign >= 0 THEN RLess(b.sq, a.sq)
           ELSE IF a.sign >= 0 THEN TRUE
           ELSE IF b.sign >= 0 THEN FALSE
           ELSE RLess(a.sq, b.sq)

(***************************************************************************)
(* Data model.                                                             *)
(***************************************************************************)
\* type MetricStats struct; stddev fields hold Sqrt(..) values
MetricStats(mean, stddev, currentMean, currentStdDev) ==
    [mean |-> mean, stddev |-> stddev,
     currentMean |-> currentMean, currentStdDev |-> currentStdDev]

\* Go's zero value of MetricStats: what a read of a missing map key yields
ZeroMetricStats == MetricStats(Zero, Sqrt(Zero), Zero, Sqrt(Zero))

\* make(map[string]MetricStats)
EmptyStats == [m \in {} |-> ZeroMetricStats]

\* d.metricsStats[key] = value
MapPut(stats, key, value) ==
    [m \in (DOMAIN stats) \cup {key} |-> IF m = key THEN value ELSE stats[m]]

\* stats := d.metricsStats[key]  (one-value form: zero value when absent)
MapGet(stats, key) ==
    IF key \in DOMAIN stats THEN stats[key] ELSE ZeroMetricStats

\* a monitoringpb.TimeSeries: its metric type and the values of its points;
\* a point's Interval.EndTime is modelled by its position in Points
TimeSeries(type, points) == [Type |-> type, Points |-> points]

\* type Anomaly struct; Message is modelled by the z-score it embeds
Anomaly(metricType, value, timestamp, zScore) ==
    [MetricName |-> metricType, Value |-> value,
     Timestamp |-> timestamp, zScore |-> zScore]

\* metric types that have at least one point in a batch
TypesWithPoints(batch) ==
    {batch[i].Type : i \in {j \in 1..Len(batch) : Len(batch[j].Points) > 0}}

(***************************************************************************)
(* Input domains.                                                          *)
(***************************************************************************)
SeqsUpTo(S, n) == UNION {[1..k -> S] : k \in 0..n}

PointSeqs(type) == SeqsUpTo(ValuesOf(type), MaxPoints)
AllSeries == UNION {{TimeSeries(t, p) : p \in PointSeqs(t)} : t \in MetricTypes}
Batches == SeqsUpTo(AllSeries, MaxSeries)

\* values of z_score_threshold: any float64 the YAML document gives, which
\* may be negative and (.inf) infinite
Thresholds == {Exact(FromInt(-1)), Exact(FromInt(1)), Exact(FromInt(3)), PosInf}

(***************************************************************************)
(* The statistics loops shared by GetBaseline and UpdateCurrentStats.      *)
(***************************************************************************)
\* sum += value over metric.Points
RECURSIVE SumPoints(_)
SumPoints(points) ==
    IF points = <<>> THEN Zero
    ELSE RAdd(SumPoints(SubSeq(points, 1, Len(points) - 1)),
              FromInt(points[Len(points)]))

\* count++ over metric.Points
CountPoints(points) == FromInt(Len(points))

\* mean := sum / count   (count # 0)
MeanOf(points) == RDiv(SumPoints(points), CountPoints(points))

\* sumOfSquares += (value - mean) * (value - mean) over metric.Points
RECURSIVE SumOfSquares(_, _)
SumOfSquares(points, mean) ==
    IF points = <<>> THEN Zero
    ELSE LET deviation == RSub(FromInt(points[Len(points)]), mean)
         IN  RAdd(SumOfSquares(SubSeq(points, 1, Len(points) - 1), mean),
                  RMul(deviation, deviation))

\* stddev := math.Sqrt(sumOfSquares / count)
StdDevOf(points) ==
    Sqrt(RDiv(SumOfSquares(points, MeanOf(points)), CountPoints(points)))

(***************************************************************************)
(* SimpleAnomalyDetector.GetBaseline                                       *)
(***************************************************************************)
\* the entry stored for one time series with points
BaselineEntry(points) ==
    MetricStats(MeanOf(points), StdDevOf(points), Zero, Sqrt(Zero))

\* the loop over metrics, from an empty map
RECURSIVE GetBaselineLoop(_, _, _)
GetBaselineLoop(stats, metrics, i) ==
    IF i > Len(metrics) THEN stats
    ELSE LET metric == metrics[i]
         IN  IF Len(metric.Points) = 0
             THEN GetBaselineLoop(stats, metrics, i + 1)
             ELSE GetBaselineLoop(
                      MapPut(stats, metric.Type, BaselineEntry(metric.Points)),
                      metrics, i + 1)

\* GetBaseline without the make(map..) that empties the map
GetBaselineStatsKeepingOld(old, metrics) == GetBaselineLoop(old, metrics, 1)

\* d.metricsStats after GetBaseline(metrics), whatever it was before
GetBaselineStats(old, metrics) == GetBaselineLoop(EmptyStats, metrics, 1)

\* initialised set only when some metric got a baseline
InitialisedIfAnyBaseline(old, metrics) == old \/ TypesWithPoints(metrics) # {}

\* d.initialised after GetBaseline(metrics)
GetBaselineInitialised(old, metrics) == TRUE

(***************************************************************************)
(* SimpleAnomalyDetector.UpdateCurrentStats                                *)
(***************************************************************************)
\* an update that also moves the baseline to the current window
RebasedEntry(entry, points) ==
    MetricStats(MeanOf(points), StdDevOf(points), MeanOf(points), StdDevOf(points))

\* stats := d.metricsStats[metricType]; stats.currentMean = ..;
\* stats.currentStdDev = ..
UpdatedEntry(entry, points) ==
    MetricStats(entry.mean, entry.stddev, MeanOf(points), StdDevOf(points))

\* the loop resetting the current window of a metric without points to zero
\* instead of skipping it
RECURSIVE UpdateLoopResettingEmpty(_, _, _)
UpdateLoopResettingEmpty(stats, metrics, i) ==
    IF i > Len(metrics) THEN stats
    ELSE LET metric == metrics[i]
             entry == MapGet(stats, metric.Type)
         IN  IF Len(metric.Points) = 0
             THEN UpdateLoopResettingEmpty(
                      MapPut(stats, metric.Type,
                             MetricStats(entry.mean, entry.stddev, Zero, Sqrt(Zero))),
                      metrics, i + 1)
             ELSE UpdateLoopResettingEmpty(
                      MapPut(stats, metric.Type, UpdatedEntry(entry, metric.Points)),
                      metrics, i + 1)

RECURSIVE UpdateCurrentStatsLoop(_, _, _)
UpdateCurrentStatsLoop(stats, metrics, i) ==
    IF i > Len(metrics) THEN stats
    ELSE LET metric == metrics[i]
         IN  IF Len(metric.Points) = 0
             THEN UpdateCurrentStatsLoop(stats, metrics, i + 1)
             ELSE UpdateCurrentStatsLoop(
                      MapPut(stats, metric.Type,
                             UpdatedEntry(MapGet(stats, metric.Type), metric.Points)),
                      metrics, i + 1)

\* d.metricsStats after UpdateCurrentStats(metrics)
UpdateCurrentStats(stats, metrics) == UpdateCurrentStatsLoop(stats, metrics, 1)

(***************************************************************************)
(* SimpleAnomalyDetector.DetectAnomalies                                   *)
(***************************************************************************)
\* zScore := (value - stats.mean) / stats.stddev
ZScore(value, stats) == DivBySqrt(RSub(FromInt(value), stats.mean), stats.stddev)

\* the comparison written >= instead of >
ExceedsThresholdOrEqual(zScore, zScoreThreshold) ==
    \/ Greater(MathAbs(zScore), zScoreThreshold)
    \/ MathAbs(zScore).kind = "finite" /\ MathAbs(zScore) = zScoreThreshold

\* if math.Abs(zScore) > zScoreThreshold
ExceedsThreshold(zScore, zScoreThreshold) ==
    Greater(MathAbs(zScore), zScoreThreshold)

\* the loop over metric.Points of one time series: anomalies appended
RECURSIVE DetectPoints(_, _, _, _)
DetectPoints(metricType, points, stats, zScoreThreshold) ==
    IF points = <<>> THEN <<>>
    ELSE LET n == Len(points)
             value == points[n]
             zScore == ZScore(value, stats)
             before == DetectPoints(metricType, SubSeq(points, 1, n - 1),
                                    stats, zScoreThreshold)
         IN  IF ExceedsThreshold(zScore, zScoreThreshold)
             THEN Append(before, Anomaly(metricType, value, n, zScore))
             ELSE before

\* whether the loop over metrics skips a time series (stats, ok := ..; !ok)
NoBaselineStats(stats, metricType) == metricType \notin DOMAIN stats

\* the loop over metrics
RECURSIVE DetectLoop(_, _, _, _)
DetectLoop(stats, metrics, zScoreThreshold, i) ==
    IF i > Len(metrics) THEN <<>>
    ELSE LET metric == metrics[i]
             rest == DetectLoop(stats, metrics, zScoreThreshold, i + 1)
         IN  IF NoBaselineStats(stats, metric.Type)
             THEN rest
             ELSE DetectPoints(metric.Type, metric.Points, stats[metric.Type],
                               zScoreThreshold) \o rest

ErrNil == "nil"
ErrNotInitialised == "baseline not initialised"

\* the pair DetectAnomalies returns
DetectAnomalies(stats, init, metrics, zScoreThreshold) ==
    IF ~init
    THEN [anomalies |-> <<>>, err |-> ErrNotInitialised]
    ELSE [anomalies |-> DetectLoop(stats, metrics, zScoreThreshold, 1),
          err |-> ErrNil]

(***************************************************************************)
(* State.                                                                  *)
(***************************************************************************)
VARIABLES
    metricsStats,      \* d.metricsStats
    initialised,       \* d.initialised
    config,            \* the loaded Config (main); "none" for the bare engine
    pc,                \* position of the caller
    op,                \* the operation that ran last, "none" once it returned
    metrics,           \* its argument (recentMetrics / historicalMetrics)
    zScoreThreshold,   \* its threshold argument
    anomalies,         \* the anomalies it returned
    err,               \* the error it returned
    ran,               \* the engine methods that step ran, in order
    source,            \* what the metrics source did during that step
    before,            \* the detector as it was when that step began
    baselineRuns,      \* history: has GetBaseline ever run
    withHistory        \* history (main): metric types with a sample in
                       \* historicalMetrics

vars == <<metricsStats, initialised, config, pc, op, metrics, zScoreThreshold,
          anomalies, err, ran, source, before, baselineRuns, withHistory>>

NoThreshold == NaN

\* the detector's fields
Detector(stats, init) == [metricsStats |-> stats, initialised |-> init]

\* the metrics source was not asked
NotAsked == [failedAt |-> 0, yielded |-> 0]

(***************************************************************************)
(* The engine used on its own: its three methods, called in any order.     *)
(***************************************************************************)
Init ==
    /\ metricsStats = EmptyStats
    /\ initialised = FALSE
    /\ config = "none"
    /\ pc = "idle"
    /\ op = "none"
    /\ metrics = <<>>
    /\ zScoreThreshold = NoThreshold
    /\ anomalies = <<>>
    /\ err = ErrNil
    /\ ran = <<>>
    /\ source = NotAsked
    /\ before = Detector(EmptyStats, FALSE)
    /\ baselineRuns = FALSE
    /\ withHistory = {}

CallGetBaseline ==
    /\ pc = "idle"
    /\ \E batch \in Batches :
        /\ metricsStats' = GetBaselineStats(metricsStats, batch)
        /\ initialised' = GetBaselineInitialised(initialised, batch)
        /\ metrics' = batch
    /\ before' = Detector(metricsStats, initialised)
    /\ baselineRuns' = TRUE
    /\ op' = "GetBaseline"
    /\ ran' = <<"GetBaseline">>
    /\ pc' = "returned"
    /\ UNCHANGED <<config, zScoreThreshold, anomalies, err, source, withHistory>>

CallUpdateCurrentStats ==
    /\ pc = "idle"
    /\ \E batch \in Batches :
        /\ metricsStats' = UpdateCurrentStats(metricsStats, batch)
        /\ metrics' = batch
    /\ before' = Detector(metricsStats, initialised)
    /\ op' = "UpdateCurrentStats"
    /\ ran' = <<"UpdateCurrentStats">>
    /\ pc' = "returned"
    /\ UNCHANGED <<initialised, config, zScoreThreshold, anomalies, err,
                   source, baselineRuns, withHistory>>

\* r is the pair DetectAnomalies returned
DetectAnomaliesStep(r, batch, threshold) ==
    /\ anomalies' = r.anomalies
    /\ err' = r.err
    /\ metrics' = batch
    /\ zScoreThreshold' = threshold

CallDetectAnomalies ==
    /\ pc = "idle"
    /\ \E batch \in Batches, threshold \in Thresholds :
        DetectAnomaliesStep(
            DetectAnomalies(metricsStats, initialised, batch, threshold),
            batch, threshold)
    /\ before' = Detector(metricsStats, initialised)
    /\ op' = "DetectAnomalies"
    /\ ran' = <<"DetectAnomalies">>
    /\ pc' = "returned"
    /\ UNCHANGED <<metricsStats, initialised, config, source, baselineRuns,
                   withHistory>>

\* the call has returned and its argument and results are dropped
Return ==
    /\ pc = "returned"
    /\ pc' = "idle"
    /\ op' = "none"
    /\ metrics' = <<>>
    /\ zScoreThreshold' = NoThreshold
    /\ anomalies' = <<>>
    /\ err' = ErrNil
    /\ ran' = <<>>
    /\ before' = Detector(metricsStats, initialised)
    /\ UNCHANGED <<metricsStats, initialised, config, source, baselineRuns,
                   withHistory>>

Next ==
    \/ CallGetBaseline
    \/ CallUpdateCurrentStats
    \/ CallDetectAnomalies
    \/ Return

Spec == Init /\ [][Next]_vars

(***************************************************************************)
(* The driver: main, processMetrics and the two fetch functions.           *)
(***************************************************************************)
\* config.Metrics
ConfiguredMetrics == <<"m1", "m2">>

\* What the metrics source answers to the requests a fetch issues, one
\* answer per request: the time series the iterator yields (each a sequence
\* of point values) and whether it then ends in an error instead of
\* iterator.Done.  A fetch issues no request after a failed one.
Reply(series, failed) == [series |-> series, failed |-> failed]

RECURSIVE RepliesFrom(_, _, _)
RepliesFrom(metricList, i, room) ==
    IF i > Len(metricList) THEN {<<>>}
    ELSE UNION {
           {<<Reply(ss, TRUE)>>} \cup
           {<<Reply(ss, FALSE)>> \o rest :
               rest \in RepliesFrom(metricList, i + 1, room - Len(ss))} :
           ss \in SeqsUpTo(PointSeqs(metricList[i]), room)}

SourceReplies == RepliesFrom(ConfiguredMetrics, 1, MaxSeries)

SourceFails(replies) == \E i \in 1..Len(replies) : replies[i].failed

GoodReplies == {replies \in SourceReplies : ~SourceFails(replies)}
FailedReplies == {replies \in SourceReplies : SourceFails(replies)}

\* the request that failed (0: none) and the time series the source yielded
\* before that
RECURSIVE Yielded(_)
Yielded(replies) ==
    IF replies = <<>> THEN 0
    ELSE Len(replies[Len(replies)].series)
         + Yielded(SubSeq(replies, 1, Len(replies) - 1))

SourceLog(replies) ==
    [failedAt |-> IF SourceFails(replies) THEN Len(replies) ELSE 0,
     yielded |-> Yielded(replies)]

ErrList == "could not list time series"

\* the loop leaving at a failed request with what it has, and no error
RECURSIVE FetchLoopBreakingOnError(_, _, _, _)
FetchLoopBreakingOnError(metricList, replies, i, allTimeSeries) ==
    IF i > Len(metricList) THEN [series |-> allTimeSeries, err |-> ErrNil]
    ELSE LET reply == replies[i]
             fetched == [k \in 1..Len(reply.series) |->
                            TimeSeries(metricList[i], reply.series[k])]
         IN  IF reply.failed
             THEN [series |-> allTimeSeries \o fetched, err |-> ErrNil]
             ELSE FetchLoopBreakingOnError(metricList, replies, i + 1,
                                           allTimeSeries \o fetched)

\* the loop over metrics of fetchRecentMetrics / fetchHistoricalMetrics (the
\* two functions differ in the time window only)
RECURSIVE FetchLoop(_, _, _, _)
FetchLoop(metricList, replies, i, allTimeSeries) ==
    IF i > Len(metricList) THEN [series |-> allTimeSeries, err |-> ErrNil]
    ELSE LET reply == replies[i]
             fetched == [k \in 1..Len(reply.series) |->
                            TimeSeries(metricList[i], reply.series[k])]
         IN  IF reply.failed
             THEN [series |-> <<>>, err |-> ErrList]
             ELSE FetchLoop(metricList, replies, i + 1, allTimeSeries \o fetched)

fetchHistoricalMetrics(metricList, replies) == FetchLoop(metricList, replies, 1, <<>>)

fetchRecentMetrics(metricList, replies) == FetchLoop(metricList, replies, 1, <<>>)

\* processMetrics once the fetch succeeded: UpdateCurrentStats has run and
\* left `updated`; DetectAnomalies runs on the same batch
ProcessFetched(updated, init, cfg, recentMetrics) ==
    [metricsStats |-> updated, recentMetrics |-> recentMetrics,
     detected |-> DetectAnomalies(updated, init, recentMetrics, cfg.ZScoreThreshold),
     ran |-> <<"UpdateCurrentStats", "DetectAnomalies">>]

\* processMetrics after fetchRecentMetrics returned `fetched`
ProcessAfterFetch(stats, init, cfg, fetched) ==
    IF fetched.err # ErrNil
    THEN [metricsStats |-> stats, recentMetrics |-> <<>>,
          detected |-> [anomalies |-> <<>>, err |-> fetched.err],
          ran |-> <<>>]
    ELSE ProcessFetched(UpdateCurrentStats(stats, fetched.series), init, cfg,
                        fetched.series)

\* processMetrics: what it leaves in the detector and what it reports
processMetrics(stats, init, cfg, replies) ==
    ProcessAfterFetch(stats, init, cfg, fetchRecentMetrics(cfg.Metrics, replies))

\* after LoadConfig and NewMetricClient succeeded
MainInit ==
    /\ metricsStats = EmptyStats
    /\ initialised = FALSE
    /\ \E threshold \in Thresholds :
           config = [Metrics |-> ConfiguredMetrics, ZScoreThreshold |-> threshold]
    /\ pc = "start"
    /\ op = "none"
    /\ metrics = <<>>
    /\ zScoreThreshold = NoThreshold
    /\ anomalies = <<>>
    /\ err = ErrNil
    /\ ran = <<>>
    /\ source = NotAsked
    /\ before = Detector(EmptyStats, FALSE)
    /\ baselineRuns = FALSE
    /\ withHistory = {}

\* fetched is what fetchHistoricalMetrics returned: an error, log.Fatalf
FetchHistoricalFailedStep(fetched, replies) ==
    /\ fetched.err # ErrNil
    /\ err' = fetched.err
    /\ source' = SourceLog(replies)

MainFetchHistoricalFailed ==
    /\ pc = "start"
    /\ \E replies \in FailedReplies :
        FetchHistoricalFailedStep(
            fetchHistoricalMetrics(config.Metrics, replies), replies)
    /\ op' = "fetchHistoricalMetrics"
    /\ pc' = "exited"
    /\ UNCHANGED <<metricsStats, initialised, config, metrics, zScoreThreshold,
                   anomalies, ran, before, baselineRuns, withHistory>>

\* fetched is what fetchHistoricalMetrics returned: detector.GetBaseline
GetBaselineStep(fetched, replies) ==
    /\ fetched.err = ErrNil
    /\ metricsStats' = GetBaselineStats(metricsStats, fetched.series)
    /\ initialised' = GetBaselineInitialised(initialised, fetched.series)
    /\ metrics' = fetched.series
    /\ withHistory' = TypesWithPoints(fetched.series)
    /\ source' = SourceLog(replies)

MainGetBaseline ==
    /\ pc = "start"
    /\ \E replies \in GoodReplies :
        GetBaselineStep(fetchHistoricalMetrics(config.Metrics, replies), replies)
    /\ before' = Detector(metricsStats, initialised)
    /\ baselineRuns' = TRUE
    /\ op' = "GetBaseline"
    /\ ran' = <<"GetBaseline">>
    /\ pc' = "baselined"
    /\ UNCHANGED <<config, zScoreThreshold, anomalies, err>>

\* one run of processMetrics, first right after GetBaseline and then on
\* every tick; r is what processMetrics did
ProcessMetricsStep(r, replies) ==
    /\ metricsStats' = r.metricsStats
    /\ metrics' = r.recentMetrics
    /\ zScoreThreshold' = config.ZScoreThreshold
    /\ anomalies' = r.detected.anomalies
    /\ err' = r.detected.err
    /\ ran' = r.ran
    /\ source' = SourceLog(replies)
    /\ before' = Detector(metricsStats, initialised)
    /\ op' = "processMetrics"
    /\ pc' = "processed"
    /\ UNCHANGED <<initialised, config, baselineRuns, withHistory>>

ProcessMetrics(replies) ==
    ProcessMetricsStep(processMetrics(metricsStats, initialised, config, replies),
                       replies)

ProcessMetricsFetched ==
    /\ pc \in {"baselined", "ticked"}
    /\ \E replies \in GoodReplies : ProcessMetrics(replies)

ProcessMetricsFetchFailed ==
    /\ pc \in {"baselined", "ticked"}
    /\ \E replies \in FailedReplies : ProcessMetrics(replies)

\* for range ticker.C: the next tick arrives; the locals of the last
\* processMetrics are gone
Tick ==
    /\ pc = "processed"
    /\ pc' = "ticked"
    /\ op' = "none"
    /\ metrics' = <<>>
    /\ zScoreThreshold' = NoThreshold
    /\ anomalies' = <<>>
    /\ err' = ErrNil
    /\ ran' = <<>>
    /\ source' = NotAsked
    /\ before' = Detector(metricsStats, initialised)
    /\ UNCHANGED <<metricsStats, initialised, config, baselineRuns, withHistory>>

MainNext ==
    \/ MainFetchHistoricalFailed
    \/ MainGetBaseline
    \/ ProcessMetricsFetched
    \/ ProcessMetricsFetchFailed
    \/ Tick

MainSpec == MainInit /\ [][MainNext]_vars

(***************************************************************************)
(* Reference computations for the properties: written from the meaning of  *)
(* the words (mean, population standard deviation, z-score against a       *)
(* threshold), in integer arithmetic, not from the engine's operators.     *)
(***************************************************************************)
\* every point of a metric type in a batch, over all its time series
RECURSIVE AllPoints(_, _)
AllPoints(batch, type) ==
    IF batch = <<>> THEN <<>>
    ELSE LET n == Len(batch)
             front == AllPoints(SubSeq(batch, 1, n - 1), type)
         IN  IF batch[n].Type = type THEN front \o batch[n].Points ELSE front

\* the points of the last time series of a metric type that has points
RECURSIVE LastWithPoints(_, _)
LastWithPoints(batch, type) ==
    IF batch = <<>> THEN <<>>
    ELSE LET n == Len(batch)
         IN  IF batch[n].Type = type /\ batch[n].Points # <<>>
             THEN batch[n].Points
             ELSE LastWithPoints(SubSeq(batch, 1, n - 1), type)

RECURSIVE RefSum(_)
RefSum(points) ==
    IF points = <<>> THEN 0 ELSE points[1] + RefSum(Tail(points))

\* sum over the points of (n * value - total)^2
RECURSIVE RefSquares(_, _, _)
RefSquares(points, n, total) ==
    IF points = <<>> THEN 0
    ELSE (n * points[1] - total) * (n * points[1] - total)
         + RefSquares(Tail(points), n, total)

\* arithmetic mean of a non-empty sequence
RefMean(points) == Rat(RefSum(points), Len(points))

\* population variance: the mean of the squared deviations (divisor n)
RefVariance(points) ==
    LET n == Len(points)
    IN  Rat(RefSquares(points, n, RefSum(points)), n * n * n)

\* |value - mean| / stddev compared with a threshold, for an entry with
\* stddev > 0: cross-multiplied squares
RefCompare(value, entry, threshold, orEqual) ==
    LET d == value * entry.mean.den - entry.mean.num
        lhs == d * d * entry.stddev.sqrtOf.den * threshold.sq.den
        rhs == threshold.sq.num * entry.mean.den * entry.mean.den
               * entry.stddev.sqrtOf.num
    IN  CASE threshold.kind = "+Inf" -> FALSE
          [] threshold.sign < 0 -> TRUE
          [] OTHER -> IF orEqual THEN lhs >= rhs ELSE lhs > rhs

RefAbove(value, entry, threshold) == RefCompare(value, entry, threshold, FALSE)
RefAtOrAbove(value, entry, threshold) == RefCompare(value, entry, threshold, TRUE)

\* the samples of the batch the last step worked on: <<series, point>>
Samples == {<<i, j>> \in (1..Len(metrics)) \X (1..MaxPoints) :
                j <= Len(metrics[i].Points)}
TypeAt(s) == metrics[s[1]].Type
ValueAt(s) == metrics[s[1]].Points[s[2]]

\* the sample was emitted as an anomaly
Flagged(s) ==
    \E k \in 1..Len(anomalies) :
        /\ anomalies[k].MetricName = TypeAt(s)
        /\ anomalies[k].Timestamp = s[2]
        /\ anomalies[k].Value = ValueAt(s)

\* DetectAnomalies ran on the engine and returned without error
Detected == op = "DetectAnomalies" /\ err = ErrNil

HasBaseline(type) == type \in DOMAIN metricsStats
PositiveStdDev(type) == metricsStats[type].stddev.sqrtOf.num > 0
ZeroStdDev(type) == metricsStats[type].stddev.sqrtOf.num = 0

One == Exact(FromInt(1))

C3_NotInitialisedIffNeverBaselined ==
    /\ op = "DetectAnomalies" => ((err = ErrNotInitialised) <=> ~baselineRuns)
    /\ (op = "DetectAnomalies" /\ err = ErrNotInitialised) => anomalies = <<>>
    /\ baselineRuns => initialised

\* DetectAnomalies returns without error on an engine whose GetBaseline
\* skipped every metric
C3_Witness ==
    /\ op = "DetectAnomalies"
    /\ err = ErrNil
    /\ baselineRuns
    /\ metricsStats = EmptyStats
    /\ metrics # <<>>

\* C5: after GetBaseline, for every metric with at least one sample in the
\* input, the stored baseline mean is the arithmetic mean of all of that
\* metric's samples in the input and the stored baseline stddev their
\* population standard deviation.
C5_BaselineOverAllSamples ==
    op = "GetBaseline" =>
        \A m \in MetricTypes :
            AllPoints(metrics, m) # <<>> =>
                /\ HasBaseline(m)
                /\ metricsStats[m].mean = RefMean(AllPoints(metrics, m))
                /\ metricsStats[m].stddev = Sqrt(RefVariance(AllPoints(metrics, m)))

\* C6: UpdateCurrentStats and DetectAnomalies leave the baseline mean and
\* stddev of every entry as they were; only GetBaseline changes them.
C6_BaselineKept ==
    op \in {"UpdateCurrentStats", "DetectAnomalies"} =>
        \A m \in DOMAIN before.metricsStats :
            /\ HasBaseline(m)
            /\ metricsStats[m].mean = before.metricsStats[m].mean
            /\ metricsStats[m].stddev = before.metricsStats[m].stddev

\* UpdateCurrentStats has overwritten the current window of a metric whose
\* baseline GetBaseline set to mean 100, stddev 10
C6_Witness ==
    /\ op = "UpdateCurrentStats"
    /\ baselineRuns
    /\ "m1" \in DOMAIN before.metricsStats
    /\ before.metricsStats["m1"].mean = FromInt(100)
    /\ before.metricsStats["m1"].stddev = Sqrt(FromInt(100))
    /\ metricsStats["m1"].currentMean = FromInt(130)
    /\ metricsStats["m1"].currentMean # before.metricsStats["m1"].currentMean

\* C7: UpdateCurrentStats called with zero samples for a known metric leaves
\* that metric's entry (current and baseline fields) exactly as it was.
C7_EmptyWindowKeepsEntry ==
    op = "UpdateCurrentStats" =>
        \A m \in DOMAIN before.metricsStats :
            AllPoints(metrics, m) = <<>> =>
                /\ HasBaseline(m)
                /\ metricsStats[m] = before.metricsStats[m]

\* UpdateCurrentStats got a time series of m1 without points while m1 had a
\* non-zero current window, and m2 got a new current window in the same call
C7_Witness ==
    /\ op = "UpdateCurrentStats"
    /\ \E i \in 1..Len(metrics) : metrics[i] = TimeSeries("m1", <<>>)
    /\ AllPoints(metrics, "m1") = <<>>
    /\ "m1" \in DOMAIN before.metricsStats
    /\ before.metricsStats["m1"].currentMean # Zero
    /\ before.metricsStats["m1"].mean # Zero
    /\ AllPoints(metrics, "m2") # <<>>

\* C8: after GetBaseline the stats mapping depends on that call's input
\* only: it has an entry for a metric exactly when the input has a sample
\* for it, every entry has currentMean = currentStdDev = 0 and the baseline
\* of the metric's last time series with points, and nothing of the mapping
\* before the call is left.
C8_BaselineReplacesStats ==
    op = "GetBaseline" =>
        /\ DOMAIN metricsStats = TypesWithPoints(metrics)
        /\ \A m \in DOMAIN metricsStats :
            /\ metricsStats[m].currentMean = Zero
            /\ metricsStats[m].currentStdDev = Sqrt(Zero)
            /\ metricsStats[m].mean = RefMean(LastWithPoints(metrics, m))
            /\ metricsStats[m].stddev =
                   Sqrt(RefVariance(LastWithPoints(metrics, m)))

\* a second GetBaseline: m2 had an entry with a current window and the
\* input has a time series of m2 without points; m1 has points
C8_Witness ==
    /\ op = "GetBaseline"
    /\ before.initialised
    /\ "m2" \in DOMAIN before.metricsStats
    /\ before.metricsStats["m2"].currentMean # Zero
    /\ \E i \in 1..Len(metrics) : metrics[i] = TimeSeries("m2", <<>>)
    /\ ~HasBaseline("m2")
    /\ HasBaseline("m1")

\* C9: a sample whose z-score is equal to the threshold or beyond it in
\* absolute value is flagged by DetectAnomalies (README).
C9_FlaggedWhenAtOrAbove ==
    Detected =>
        \A s \in Samples :
            (/\ HasBaseline(TypeAt(s))
             /\ PositiveStdDev(TypeAt(s))
             /\ RefAtOrAbove(ValueAt(s), metricsStats[TypeAt(s)], zScoreThreshold))
                => Flagged(s)

(***************************************************************************)
(* Properties of the driver (specification MainSpec).                      *)
(***************************************************************************)
\* C4: in every polling cycle DetectAnomalies emits no anomaly for a metric
\* that had no historical sample at GetBaseline.
C4_NoAnomalyWithoutHistory ==
    op = "processMetrics" =>
        \A k \in 1..Len(anomalies) : anomalies[k].MetricName \in withHistory

\* C10: when the fetch of a polling cycle fails, at whichever request,
\* neither UpdateCurrentStats nor DetectAnomalies runs, the detector is as it
\* was, nothing is reported, and the loop goes on to the next tick.
C10_FailedFetchAbandonsCycle ==
    (op = "processMetrics" /\ source.failedAt # 0) =>
        /\ ran = <<>>
        /\ Detector(metricsStats, initialised) = before
        /\ metrics = <<>>
        /\ anomalies = <<>>
        /\ pc = "processed"
        /\ ENABLED Tick

\* the request for the second metric failed after the source had yielded
\* time series, in a cycle that follows a successful one
C10_Witness ==
    /\ op = "processMetrics"
    /\ source.failedAt = 2
    /\ source.yielded > 0
    /\ \E m \in DOMAIN metricsStats : metricsStats[m].currentMean # Zero
    /\ err = ErrList

====
